---- MODULE Spec2Model ----
(***************************************************************************)
(* Model of gpcalc.py: geopotential on the full and half model levels of   *)
(* a hybrid pressure-coordinate grid (IFS documentation Cy41r1, part III). *)
(*                                                                         *)
(* The module globals era_ds, ml_df, lvlmax and source are the state.      *)
(* Every function of the module is an operator that computes what the      *)
(* Python code computes, including the exception it ends with, and an      *)
(* action that records the call and its outcome.                           *)
(*                                                                         *)
(* Numbers.  A grid field is a function from the grid cells to cell        *)
(* values; a cell value is an integer or NaN.  Pressures a + b*sp are      *)
(* computed; logarithms and the products with R_D and the virtual          *)
(* temperature are kept as terms (the operands of the expression the code  *)
(* evaluates), so that two results are equal exactly when the code         *)
(* combined the same operands in the same order.                           *)
(***************************************************************************)
EXTENDS Integers, Sequences, FiniteSets, TLC

\* The field names of the records below, in the order every record lists
\* them: TLC keeps the fields of a record in the order in which the module
\* first names them, and a record written in that order is never reordered
FieldOrder ==
    [nan |-> {}, kind |-> {}, bound |-> {}, v |-> {}, exc |-> {}, none |-> {},
     a |-> {}, b |-> {}, levels |-> {}, sp |-> {}, z |-> {}, j |-> {}, t |-> {},
     q |-> {}, p |-> {}, tag |-> {}, pu |-> {}, pl |-> {}, deltapk |-> {},
     rows |-> {}, sum |-> {}, surface |-> {}, phikhl |-> {}, ak |-> {},
     track |-> {}, set |-> {}, k |-> {}, ret |-> {}]

VARIABLES
    era_ds,     \* global era_ds: the level dataset (sp, z, t and q per level)
    ml_df,      \* global ml_df: the coefficient table (columns 'a [Pa]', 'b')
    lvlmax,     \* global lvlmax: the number of full levels
    source,     \* global source: 'era5', 'erai', 'error' or None
    op,         \* the function called last
    arg_k,      \* its level argument
    arg_hl,     \* its half-level argument (get_p), "-" otherwise
    ret,        \* its outcome: a returned value or a raised exception
    last_phi    \* history (when tracked): the previous get_phi call and its outcome

vars == <<era_ds, ml_df, lvlmax, source, op, arg_k, arg_hl, ret, last_phi>>

globals == <<era_ds, ml_df, lvlmax, source>>

-----------------------------------------------------------------------------
(* Bounds of the inputs *)

\* set_data is tried with the level counts 137, 60 and 1..MaxOtherLvls
MaxOtherLvls == 3

\* the surface pressure of the first cell is one of 0..MaxSp
MaxSp == 1

\* the level counts the code knows
LVLS_ERA5 == 137
LVLS_ERAI == 60

Cells == {"c1", "c2"}

-----------------------------------------------------------------------------
(* Values *)

Num(x) == [nan |-> FALSE, v |-> x]
NaN    == [nan |-> TRUE,  v |-> 0]

\* numpy arithmetic on cell values: NaN propagates
add(x, y) == IF x.nan \/ y.nan THEN NaN ELSE Num(x.v + y.v)
sub(x, y) == IF x.nan \/ y.nan THEN NaN ELSE Num(x.v - y.v)
mul(x, y) == IF x.nan \/ y.nan THEN NaN ELSE Num(x.v * y.v)

\* the outcome of a call
Return(x) == [kind |-> "return", v |-> x]
Raise(e)  == [kind |-> "raise",  v |-> [exc |-> e]]

None == [none |-> TRUE]

\* the local h of get_p: unbound until one of the branches assigns it
Bound(x) == [bound |-> TRUE,  v |-> x]
Unbound  == [bound |-> FALSE, v |-> 0]

-----------------------------------------------------------------------------
(* Inputs of set_data *)

\* A coefficient table with the rows 0..lvls: a = slope * row, b = row
Table(lvls, slope) ==
    [none |-> FALSE,
     a    |-> [r \in 0..lvls |-> slope * r],
     b    |-> [r \in 0..lvls |-> r]]

Slopes == {-1, 1}

\* A dataset with the full levels 1..lvls; the second cell's surface pressure
\* is one above the first's
Dataset(lvls, sp) ==
    [none   |-> FALSE,
     levels |-> 1..lvls,
     sp     |-> [c \in Cells |-> Num(IF c = "c1" THEN sp ELSE sp + 1)],
     z      |-> [c \in Cells |-> Num(IF c = "c1" THEN 0 ELSE 981)],
     t      |-> [j \in 1..lvls |-> [c \in Cells |-> Num(200 + j)]],
     q      |-> [j \in 1..lvls |-> [c \in Cells |-> Num(j % 3)]]]

LevelCounts == {LVLS_ERA5, LVLS_ERAI} \cup 1..MaxOtherLvls

\* the levels the calculations are called with: around both ends of 1..lvls
KSample(lvls) == {0, 1, 2, lvls - 1, lvls, lvls + 1}

HLs == {"+0.5", "-0.5", "0.0"}

-----------------------------------------------------------------------------
Init ==
    /\ era_ds = None
    /\ ml_df = None
    /\ lvlmax = "None"
    /\ source = "None"
    /\ op = "import"
    /\ arg_k = 0
    /\ arg_hl = "-"
    /\ ret = Return([none |-> TRUE])
    /\ last_phi = [track |-> FALSE, set |-> FALSE]

\* the same, with the history of get_phi calls tracked
InitHist ==
    /\ era_ds = None
    /\ ml_df = None
    /\ lvlmax = "None"
    /\ source = "None"
    /\ op = "import"
    /\ arg_k = 0
    /\ arg_hl = "-"
    /\ ret = Return([none |-> TRUE])
    /\ last_phi = [track |-> TRUE, set |-> FALSE]

-----------------------------------------------------------------------------
(* get_p: pressure at the half level below (+0.5) or above (-0.5) level k *)

h_erai_as_era5(src, hl) ==
    IF src \in {"era5", "erai"}
    THEN IF hl = "+0.5" THEN Bound(0)
         ELSE IF hl = "-0.5" THEN Bound(-1)
         ELSE Unbound
    ELSE Unbound

\* the if/elif chain that assigns h; no branch assigns it for any other
\* source or any other hl (the code prints and goes on)
h_of(src, hl) ==
    IF src = "era5"
    THEN IF hl = "+0.5" THEN Bound(0)
         ELSE IF hl = "-0.5" THEN Bound(-1)
         ELSE Unbound
    ELSE IF src = "erai"
    THEN IF hl = "+0.5" THEN Bound(1)
         ELSE IF hl = "-0.5" THEN Bound(0)
         ELSE Unbound
    ELSE Unbound

\* ml_df.loc[r, col]: the cell, or KeyError when the table has no row r
loc(r, col) ==
    IF r \in DOMAIN ml_df[col]
    THEN Return(ml_df[col][r])
    ELSE Raise("KeyError")

\* a + b * era_ds.sp.values
hybrid(a, b) == [c \in Cells |-> add(Num(a), mul(Num(b), era_ds.sp[c]))]

\* era_ds.sp.values * np.nan
nan_field == [c \in Cells |-> mul(era_ds.sp[c], NaN)]

\* the branch that reads row k+h of the table and returns a + b*sp
read_row(k, h) ==
    IF ~h.bound THEN Raise("UnboundLocalError")
    ELSE LET a == loc(k + h.v, "a")
             b == loc(k + h.v, "b")
         IN  IF a.kind = "raise" THEN a
             ELSE IF b.kind = "raise" THEN b
             ELSE Return([p |-> hybrid(a.v, b.v), rows |-> <<k + h.v, k + h.v>>])

at_lvlmax_always_in_table(k, h) ==
    IF k <= lvlmax THEN Return(TRUE) ELSE Return(FALSE)

\* the condition of the if: Python evaluates it left to right and reads h
\* only when k = lvlmax
in_table(k, h) ==
    IF k < lvlmax THEN Return(TRUE)
    ELSE IF k = lvlmax
    THEN IF ~h.bound THEN Raise("UnboundLocalError")
         ELSE Return(  (h.v = -1 /\ source = "era5")
                    \/ (h.v = 0 /\ source = "erai"))
    ELSE Return(FALSE)

\* the condition of the elif
at_surface(k, h) ==
    \/ (source = "era5" /\ k = lvlmax /\ h.v = 0)
    \/ (source = "erai" /\ k = lvlmax /\ h.v = 1)

get_p(k, hl) ==
    LET h == h_of(source, hl) IN
    IF era_ds.none THEN Raise("AttributeError")
    ELSE LET c == in_table(k, h) IN
         IF c.kind = "raise" THEN c
         ELSE IF c.v THEN read_row(k, h)
         ELSE IF at_surface(k, h) THEN Return([p |-> era_ds.sp, rows |-> <<>>])
         ELSE Return([p |-> nan_field, rows |-> <<>>])

-----------------------------------------------------------------------------
(* get_alpha: the coefficient alpha_k of equation 2.23 *)

get_alpha(k) ==
    IF k = 1 THEN Return([tag |-> "log(2)"])
    ELSE LET pu == get_p(k, "-0.5") IN
         IF pu.kind = "raise" THEN pu
         ELSE LET pl == get_p(k, "+0.5") IN
              IF pl.kind = "raise" THEN pl
              ELSE Return([tag     |-> "1-(pu/deltapk)*log(pl/pu)",
                           pu      |-> pu.v.p,
                           pl      |-> pl.v.p,
                           deltapk |-> [c \in Cells |-> sub(pl.v.p[c], pu.v.p[c])]])

-----------------------------------------------------------------------------
(* get_phikhalf: the geopotential at half level k+1/2, equation 2.21 *)

sel_nearest(level) ==
    LET n == IF level < 1 THEN 1 ELSE IF level > Cardinality(era_ds.levels)
                                      THEN Cardinality(era_ds.levels) ELSE level
    IN  Return([t |-> era_ds.t[n], q |-> era_ds.q[n]])

\* era_ds.sel(level=j): the fields of level j, or KeyError
sel(level) ==
    IF level \in era_ds.levels
    THEN Return([t |-> era_ds.t[level], q |-> era_ds.q[level]])
    ELSE Raise("KeyError")

\* Python's range(lo, hi) as the sequence lo, lo+1, ..., hi-1
range(lo, hi) == IF hi > lo THEN [i \in 1..(hi - lo) |-> lo + i - 1] ELSE <<>>

loop_levels_from_k(k) == range(k, lvlmax + 1)

loop_levels_to_lvlmax_excl(k) == range(k + 1, lvlmax)

\* the levels the for loop visits
loop_levels(k) == range(k + 1, lvlmax + 1)

\* one pass of the loop body: the term R_D*tv*log(pl/pu) of level j
loop_body(j) ==
    LET pu == get_p(j, "-0.5") IN
    IF pu.kind = "raise" THEN pu
    ELSE LET pl == get_p(j, "+0.5") IN
         IF pl.kind = "raise" THEN pl
         ELSE LET d == sel(j) IN
              IF d.kind = "raise" THEN d
              ELSE Return([j  |-> j, t |-> d.v.t, q |-> d.v.q,
                           pu |-> pu.v.p, pl |-> pl.v.p])

\* the passes lo..hi of the for loop over the levels js: the terms they add
\* to s, in order, or the exception of the first pass that raises, which ends
\* the loop (the range is split in two to keep the evaluation shallow)
RECURSIVE loop(_, _, _)
loop(js, lo, hi) ==
    IF lo > hi THEN Return(<<>>)
    ELSE IF lo = hi
    THEN LET term == loop_body(js[lo]) IN
         IF term.kind = "raise" THEN term ELSE Return(<<term.v>>)
    ELSE LET mid   == (lo + hi) \div 2
             first == loop(js, lo, mid)
         IN  IF first.kind = "raise" THEN first
             ELSE LET rest == loop(js, mid + 1, hi) IN
                  IF rest.kind = "raise" THEN rest
                  ELSE Return(first.v \o rest.v)

get_phikhalf(k) ==
    IF era_ds.none THEN Raise("AttributeError")
    ELSE LET js == loop_levels(k)
             s  == loop(js, 1, Len(js))
         IN
         IF s.kind = "raise" THEN s
         ELSE Return([sum |-> s.v, surface |-> <<era_ds.z>>])

-----------------------------------------------------------------------------
(* get_phi: the geopotential at full level k, equation 2.22 *)

get_phi(k) ==
    LET phikhl == get_phikhalf(k) IN
    IF phikhl.kind = "raise" THEN phikhl
    ELSE LET ak == get_alpha(k) IN
         IF ak.kind = "raise" THEN ak
         ELSE LET d == sel(k) IN
              IF d.kind = "raise" THEN d
              ELSE Return([t |-> d.v.t, q |-> d.v.q,
                           phikhl |-> phikhl.v, ak |-> ak.v])

-----------------------------------------------------------------------------
(* Actions: one per function of the module *)

\* the levels a caller passes: around both ends of the configured range
Ks == IF era_ds.none THEN {0, 1, 2} ELSE KSample(lvlmax)

Called(f, k, hl, r) ==
    /\ op' = f
    /\ arg_k' = k
    /\ arg_hl' = hl
    /\ ret' = r

set_data(eds, mldf, lvls) ==
    /\ era_ds' = eds
    /\ ml_df' = mldf
    /\ lvlmax' = lvls
    /\ source' = IF lvls = LVLS_ERA5 THEN "era5"
                 ELSE IF lvls = LVLS_ERAI THEN "erai"
                 ELSE "error"
    /\ Called("set_data", lvls, "-", Return([none |-> TRUE]))
    /\ last_phi' = [track |-> last_phi.track, set |-> FALSE]

SetData ==
    \E lvls \in LevelCounts, slope \in Slopes, sp \in 0..MaxSp :
        set_data(Dataset(lvls, sp), Table(lvls, slope), lvls)

GetP_inplace(k, hl) ==
    /\ Called("get_p", k, hl, get_p(k, hl))
    /\ era_ds' = IF era_ds.none THEN era_ds
                 ELSE [era_ds EXCEPT !.sp = nan_field]
    /\ UNCHANGED <<ml_df, lvlmax, source, last_phi>>

GetP(k, hl) ==
    /\ Called("get_p", k, hl, get_p(k, hl))
    /\ UNCHANGED <<globals, last_phi>>

GetAlpha(k) ==
    /\ Called("get_alpha", k, "-", get_alpha(k))
    /\ UNCHANGED <<globals, last_phi>>

GetPhikhalf(k) ==
    /\ Called("get_phikhalf", k, "-", get_phikhalf(k))
    /\ UNCHANGED <<globals, last_phi>>

GetPhi(k) ==
    /\ LET r == get_phi(k) IN
        /\ Called("get_phi", k, "-", r)
        /\ last_phi' = IF last_phi.track
                       THEN [track |-> TRUE, set |-> TRUE, k |-> k, ret |-> r]
                       ELSE last_phi
    /\ UNCHANGED globals

Next ==
    \/ SetData
    \/ \E k \in Ks, hl \in HLs : GetP(k, hl)
    \/ \E k \in Ks : GetAlpha(k)
    \/ \E k \in Ks : GetPhikhalf(k)
    \/ \E k \in Ks : GetPhi(k)

Spec == Init /\ [][Next]_vars

SpecHist == InitHist /\ [][Next]_vars

-----------------------------------------------------------------------------
(* Properties *)

Calculations == {"get_p", "get_alpha", "get_phikhalf", "get_phi"}

Valid == source \in {"era5", "erai"}

\* the call ended with an exception instead of a value
Fails(r) == r.kind = "raise"

\* r is a + b*sp computed from row n of the table, read for a and for b
FromRow(n, r) ==
    /\ r.kind = "return"
    /\ r.v.rows = <<n, n>>
    /\ n \in DOMAIN ml_df.a
    /\ r.v.p = [c \in Cells |->
                   Num(ml_df.a[n] + ml_df.b[n] * era_ds.sp[c].v)]

\* r is the surface pressure itself, no row of the table read
Direct(r) ==
    /\ r.kind = "return"
    /\ r.v.rows = <<>>
    /\ r.v.p = era_ds.sp

\* C1: set_data selects the 137-scheme for 137 levels and the 60-scheme for
\* 60 levels, and for every other level count its outcome is a failure the
\* caller can tell from a successful configuration.
C1_ConfigErrorSurfaced ==
    op = "set_data" =>
        /\ arg_k = LVLS_ERA5 => (source = "era5" /\ ~Fails(ret))
        /\ arg_k = LVLS_ERAI => (source = "erai" /\ ~Fails(ret))
        /\ arg_k \notin {LVLS_ERA5, LVLS_ERAI} => Fails(ret)

\* C2: after set_data with a level count that is neither 137 nor 60, no
\* calculation returns a value, whatever full level it is called with.
C2_InvalidConfigBlocks ==
    (source = "error" /\ op \in Calculations /\ arg_k \in 1..lvlmax)
        => Fails(ret)

\* C3: under a valid configuration get_phi(k) fails for every k < 1 and
\* every k > lvlmax; it returns no field.
C3_PhiRejectsOutOfRange ==
    (Valid /\ op = "get_phi" /\ (arg_k < 1 \/ arg_k > lvlmax))
        => Fails(ret)

C3_Witness ==
    /\ Valid /\ op = "get_phi" /\ arg_k > lvlmax
    /\ Fails(ret)
    /\ get_phikhalf(arg_k).kind = "return"
    /\ get_alpha(arg_k).kind = "return"

\* C4: get_p(k, hl) with hl neither +0.5 nor -0.5 fails, for every level and
\* every configuration; it returns no field.
C4_BadSpecifierFails ==
    (op = "get_p" /\ arg_hl \notin {"+0.5", "-0.5"}) => Fails(ret)

\* the half-level pressure difference of level k is zero or negative in
\* some grid cell
NonPositiveDp(k) ==
    LET pu == get_p(k, "-0.5")
        pl == get_p(k, "+0.5")
    IN  /\ pu.kind = "return"
        /\ pl.kind = "return"
        /\ \E c \in Cells :
              /\ ~pu.v.p[c].nan
              /\ ~pl.v.p[c].nan
              /\ pl.v.p[c].v - pu.v.p[c].v <= 0

\* C5: under a valid configuration get_alpha(k), k > 1, fails whenever the
\* difference p_below(k) - p_above(k) is zero or negative in some grid cell.
C5_AlphaRejectsNonPositiveDp ==
    (Valid /\ op = "get_alpha" /\ arg_k > 1 /\ NonPositiveDp(arg_k))
        => Fails(ret)

\* C6: get_phikhalf(lvlmax) is the surface geopotential: the loop adds no
\* term (so no half-level pressure is looked up) and z is added once to 0.
C6_PhikhalfAtLvlmaxIsSurface ==
    (op = "get_phikhalf" /\ ~era_ds.none /\ arg_k = lvlmax)
        => /\ ret.kind = "return"
           /\ ret.v.sum = <<>>
           /\ ret.v.surface = <<era_ds.z>>

C6_Witness ==
    /\ op = "get_phikhalf" /\ Valid /\ arg_k = lvlmax
    /\ ret.kind = "return"
    /\ era_ds.z["c2"].v > 0

\* C7: a calculation leaves era_ds, ml_df, lvlmax and source as they are,
\* and get_phi(k) called again with the same k gives the outcome it gave
\* before, whichever calculations ran in between.
C7_CalculationsWriteNothing ==
    [][ /\ op' \in Calculations => UNCHANGED globals
        /\ (op' = "get_phi" /\ last_phi.set /\ last_phi.k = arg_k')
              => ret' = last_phi.ret ]_vars

C7_Witness ==
    /\ Valid
    /\ last_phi.set /\ last_phi.ret.kind = "return"
    /\ op = "get_p" /\ arg_k = lvlmax /\ arg_hl = "+0.5"
    /\ ret.kind = "return"

\* C8 as stated: under the 60-level scheme at k = lvlmax, get_p(k, +0.5)
\* reads row k+1 and returns a + b*sp while get_p(k, -0.5) returns the
\* surface pressure without reading the table; for k < lvlmax +0.5 reads
\* row k+1 and -0.5 reads row k.
C8_AsStated ==
    (source = "erai" /\ op = "get_p" /\ arg_k \in 1..lvlmax
                     /\ arg_hl \in {"+0.5", "-0.5"})
        => IF arg_k = lvlmax
           THEN IF arg_hl = "+0.5" THEN FromRow(arg_k + 1, ret) ELSE Direct(ret)
           ELSE IF arg_hl = "+0.5" THEN FromRow(arg_k + 1, ret)
                ELSE FromRow(arg_k, ret)

\* C8 amended: under the 60-level scheme at k = lvlmax, get_p(k, +0.5)
\* returns the surface pressure without reading the table while
\* get_p(k, -0.5) reads row k and returns a + b*sp; for k < lvlmax +0.5
\* reads row k+1 and -0.5 reads row k.
C8_EraiRows ==
    (source = "erai" /\ op = "get_p" /\ arg_k \in 1..lvlmax
                     /\ arg_hl \in {"+0.5", "-0.5"})
        => IF arg_k = lvlmax
           THEN IF arg_hl = "+0.5" THEN Direct(ret) ELSE FromRow(arg_k, ret)
           ELSE IF arg_hl = "+0.5" THEN FromRow(arg_k + 1, ret)
                ELSE FromRow(arg_k, ret)

C8_Witness ==
    /\ source = "erai" /\ op = "get_p" /\ arg_k = lvlmax /\ arg_hl = "-0.5"
    /\ ret.kind = "return"
    /\ ret.v.rows = <<LVLS_ERAI, LVLS_ERAI>>
    /\ ret.v.p # era_ds.sp

\* C9: under the 137-level scheme, for k in 1..lvlmax, get_p(k, -0.5) is
\* a + b*sp of row k-1; get_p(k, +0.5) is a + b*sp of row k when k < lvlmax
\* and the surface pressure, no row read, when k = lvlmax; so the half level
\* below k and the half level above k+1 read the same row.
C9_Era5Rows ==
    (source = "era5" /\ op = "get_p" /\ arg_k \in 1..lvlmax
                     /\ arg_hl \in {"+0.5", "-0.5"})
        => IF arg_hl = "-0.5" THEN FromRow(arg_k - 1, ret)
           ELSE IF arg_k = lvlmax THEN Direct(ret)
           ELSE /\ FromRow(arg_k, ret)
                /\ ret = get_p(arg_k + 1, "-0.5")

C9_Witness ==
    /\ source = "era5" /\ op = "get_p" /\ arg_k = lvlmax - 1 /\ arg_hl = "+0.5"
    /\ ret.kind = "return"
    /\ ret.v.rows = <<LVLS_ERA5 - 1, LVLS_ERA5 - 1>>

\* the term of level j: its fields and the pressures of its two half levels
Term(j) ==
    [j  |-> j, t |-> era_ds.t[j], q |-> era_ds.q[j],
     pu |-> get_p(j, "-0.5").v.p, pl |-> get_p(j, "+0.5").v.p]

\* C10: under a valid configuration, for k in 1..lvlmax, get_phikhalf(k) is
\* the surface geopotential, added once, plus one term for each level of
\* k+1..lvlmax and no other; so get_phikhalf(k) is get_phikhalf(k+1) plus the
\* term of level k+1 when k < lvlmax.
C10_PhikhalfTerms ==
    (Valid /\ op = "get_phikhalf" /\ arg_k \in 1..lvlmax)
        => /\ ret.kind = "return"
           /\ ret.v.surface = <<era_ds.z>>
           /\ Len(ret.v.sum) = lvlmax - arg_k
           /\ \A j \in (arg_k + 1)..lvlmax :
                  /\ Cardinality({i \in 1..Len(ret.v.sum) : ret.v.sum[i].j = j}) = 1
                  /\ Term(j) \in {ret.v.sum[i] : i \in 1..Len(ret.v.sum)}
           /\ arg_k < lvlmax =>
                  LET up == get_phikhalf(arg_k + 1) IN
                  /\ up.kind = "return"
                  /\ ret.v.surface = up.v.surface
                  /\ ret.v.sum = <<Term(arg_k + 1)>> \o up.v.sum

C10_Witness ==
    /\ Valid /\ op = "get_phikhalf" /\ arg_k = 1
    /\ ret.kind = "return"
    /\ Len(ret.v.sum) >= LVLS_ERAI - 1

====
